---- MODULE Spec2Model ----
(***************************************************************************)
(* Signal.breakpoint (src/index.js, the signal-js build, lines 22-233).    *)
(*                                                                         *)
(* The module's closure variables are the state; every public operation    *)
(* (configure, getConfig, getCurrent, reset) and every event the module listens to    *)
(* (signal-window's 'resize.breakpoint', the window's 'focus') is one      *)
(* action.  A JavaScript value is a record [t, n]: t is "undefined",       *)
(* "null" or "num", n the number (0 when t is not "num").                  *)
(***************************************************************************)
EXTENDS Integers, Sequences, FiniteSets

\* ---------------------------------------------------------------- bounds

\* a caller configures at most MaxBP breakpoints, drawn from 2, 4, .., 2*MaxBP
MaxBP == 2
\* viewport widths are 0..MaxWidth
MaxWidth == 5
\* configure() may stack at most MaxHandlers resize handlers between resets
MaxHandlers == 2
\* unmatched enters of one breakpoint are counted up to MaxOpen
MaxOpen == 2

\* ------------------------------------------------------------ JS values

UNDEFINED == [t |-> "undefined", n |-> 0]
NULL == [t |-> "null", n |-> 0]
Num(n) == [t |-> "num", n |-> n]

\* !v for the values the module handles
Falsy(v) == v.t # "num" \/ v.n = 0

\* arr[idx] of a JavaScript array (0-based; undefined out of range)
At(arr, idx) == IF idx >= 0 /\ idx < Len(arr) THEN Num(arr[idx + 1]) ELSE UNDEFINED

\* ------------------------------------------------------------- inputs

\* even values, so that a width can fall strictly between two breakpoints
BPValues == { 2 * k : k \in 1..MaxBP }

Widths == 0..MaxWidth

Injective(s) == \A i, j \in DOMAIN s : i # j => s[i] # s[j]

\* breakpoint arrays a caller passes: distinct positive integers, any order
BreakpointInputs ==
    { s \in UNION { [1..n -> BPValues] : n \in 0..MaxBP } : Injective(s) }

\* the settings argument of configure: each key is present or not
SettingsInputs ==
    { s \in [hasClassBody : BOOLEAN, classBody : BOOLEAN,
             hasBreakpoints : BOOLEAN, breakpoints : BreakpointInputs] :
        /\ (~s.hasClassBody => ~s.classBody)
        /\ (~s.hasBreakpoints => s.breakpoints = << >>) }

\* -------------------------------------------------------------- state

VARIABLES
    _width,               \* last width a resize event carried
    _currentBreakpoint,   \* JS value: undefined, null or a number
    _options,             \* [has, classBody, breakpoints]; has = FALSE is {}
    resizeHandlers,       \* handlers registered on 'resize.breakpoint'
    focusListener,        \* whether _resize listens to the window's focus
    bodyClasses,          \* classes on document.body
    emitted,              \* signals the last operation triggered, in order
    lastOp,               \* the last operation, its return value, whether it threw
    viewport,             \* the window's real width
    defaultsObj,          \* the _defaults object as it is now
    caller,               \* the array _options.breakpoints refers to, as its owner sees it
    returned,             \* the object the last getConfig() handed out
    pairing               \* history: enters not yet matched by an exit

vars == << _width, _currentBreakpoint, _options, resizeHandlers, focusListener,
           bodyClasses, emitted, lastOp, viewport, defaultsObj, caller, returned,
           pairing >>

_defaults == [classBody |-> TRUE, breakpoints |-> << 320, 480, 768, 992, 1200 >>]

\* ------------------------------------------------------------ helpers

RECURSIVE Insert(_, _)
Insert(x, s) ==
    IF s = << >> THEN << x >>
    ELSE IF x - Head(s) <= 0 THEN << x >> \o s
    ELSE << Head(s) >> \o Insert(x, Tail(s))

RECURSIVE _numericSort(_)
_numericSort(arr) ==
    IF arr = << >> THEN << >> ELSE Insert(Head(arr), _numericSort(Tail(arr)))

\* 'breakpoint-' + breakpoint
ClassName(b) == [prefix |-> "breakpoint-", value |-> b]

\* a triggered signal: name = prefix + suffix, where suffix is the breakpoint
\* for the specific signal and empty for the generic one
Signal(prefix, suffix, payload) ==
    [prefix |-> prefix, suffix |-> suffix, payload |-> payload]

\* mutant: the upper end of a bucket taken as inclusive
RECURSIVE DetermineLoop_InclusiveNext(_, _, _)
DetermineLoop_InclusiveNext(width, breakpoints, idx) ==
    IF ~(idx < Len(breakpoints)) THEN Num(-1)
    ELSE LET prevbreakpoint == At(breakpoints, idx - 1)
             breakpoint     == At(breakpoints, idx)
             nextbreakpoint == At(breakpoints, idx + 1)
         IN  IF Falsy(prevbreakpoint) /\ width <= breakpoint.n THEN breakpoint
             ELSE IF Falsy(nextbreakpoint) THEN breakpoint
             ELSE IF width >= breakpoint.n /\ width <= nextbreakpoint.n THEN breakpoint
             ELSE DetermineLoop_InclusiveNext(width, breakpoints, idx + 1)

RECURSIVE DetermineLoop(_, _, _)
DetermineLoop(width, breakpoints, idx) ==
    IF ~(idx < Len(breakpoints)) THEN Num(-1)
    ELSE LET prevbreakpoint == At(breakpoints, idx - 1)
             breakpoint     == At(breakpoints, idx)
             nextbreakpoint == At(breakpoints, idx + 1)
         IN  IF Falsy(prevbreakpoint) /\ width <= breakpoint.n THEN breakpoint
             ELSE IF Falsy(nextbreakpoint) THEN breakpoint
             ELSE IF width >= breakpoint.n /\ width < nextbreakpoint.n THEN breakpoint
             ELSE DetermineLoop(width, breakpoints, idx + 1)

\* mutant of the loop, started at index 0
_determineCurrentBreakpoint_InclusiveNext(width, breakpoints) ==
    DetermineLoop_InclusiveNext(width, breakpoints, 0)

_determineCurrentBreakpoint(width, breakpoints) ==
    DetermineLoop(width, breakpoints, 0)

\* The handlers below run on a record m = [cur, body, out]: the active
\* breakpoint, the body's classes and the signals triggered so far.

\* mutant: the guard against non-positive breakpoints left out
_enterBreakpoint_NoGuard(m, opts, breakpoint) ==
    IF Falsy(breakpoint) THEN m
    ELSE [m EXCEPT
            !.body = IF opts.classBody THEN @ \cup {ClassName(breakpoint.n)} ELSE @,
            !.out  = @ \o << Signal("enter", << breakpoint.n >>, breakpoint.n),
                            Signal("enter", << >>, breakpoint.n) >>]

_enterBreakpoint(m, opts, breakpoint) ==
    IF Falsy(breakpoint) \/ breakpoint.n <= 0 THEN m
    ELSE [m EXCEPT
            !.body = IF opts.classBody THEN @ \cup {ClassName(breakpoint.n)} ELSE @,
            !.out  = @ \o << Signal("enter", << breakpoint.n >>, breakpoint.n),
                            Signal("enter", << >>, breakpoint.n) >>]

\* mutant: no guard, so a cleared breakpoint is exited like any other
_exitBreakpoint_NoGuard(m, opts, breakpoint) ==
    [m EXCEPT
        !.body = IF opts.classBody THEN @ \ {ClassName(breakpoint.n)} ELSE @,
        !.out  = @ \o << Signal("exit", << breakpoint.n >>, breakpoint.n),
                        Signal("exit", << >>, breakpoint.n) >>]

\* mutant: only the falsy values are kept out, the sentinel -1 is exited
_exitBreakpoint_FalsyOnly(m, opts, breakpoint) ==
    IF Falsy(breakpoint) THEN m
    ELSE [m EXCEPT
            !.body = IF opts.classBody THEN @ \ {ClassName(breakpoint.n)} ELSE @,
            !.out  = @ \o << Signal("exit", << breakpoint.n >>, breakpoint.n),
                            Signal("exit", << >>, breakpoint.n) >>]

\* mutant: the generic signal triggered before the breakpoint's own
_exitBreakpoint_GenericFirst(m, opts, breakpoint) ==
    IF Falsy(breakpoint) \/ breakpoint.n <= 0 THEN m
    ELSE [m EXCEPT
            !.body = IF opts.classBody THEN @ \ {ClassName(breakpoint.n)} ELSE @,
            !.out  = @ \o << Signal("exit", << >>, breakpoint.n),
                            Signal("exit", << breakpoint.n >>, breakpoint.n) >>]

_exitBreakpoint(m, opts, breakpoint) ==
    IF Falsy(breakpoint) \/ breakpoint.n <= 0 THEN m
    ELSE [m EXCEPT
            !.body = IF opts.classBody THEN @ \ {ClassName(breakpoint.n)} ELSE @,
            !.out  = @ \o << Signal("exit", << breakpoint.n >>, breakpoint.n),
                            Signal("exit", << >>, breakpoint.n) >>]

\* mutant: no early return when the breakpoint is unchanged
_resize_NoDedup(m, opts, width) ==
    LET resizeBreakpoint == _determineCurrentBreakpoint(width, opts.breakpoints)
        exited  == _exitBreakpoint(m, opts, m.cur)
        entered == _enterBreakpoint(exited, opts, resizeBreakpoint)
    IN  [entered EXCEPT !.cur = resizeBreakpoint]

\* mutant: the new breakpoint entered before the old one is exited
_resize_EnterFirst(m, opts, width) ==
    LET resizeBreakpoint == _determineCurrentBreakpoint(width, opts.breakpoints)
    IN  IF resizeBreakpoint = m.cur THEN m
        ELSE LET entered == _enterBreakpoint(m, opts, resizeBreakpoint)
                 exited  == _exitBreakpoint(entered, opts, m.cur)
             IN  [exited EXCEPT !.cur = resizeBreakpoint]

_resize(m, opts, width) ==
    LET resizeBreakpoint == _determineCurrentBreakpoint(width, opts.breakpoints)
    IN  IF resizeBreakpoint = m.cur THEN m
        ELSE LET exited  == _exitBreakpoint(m, opts, m.cur)
                 entered == _enterBreakpoint(exited, opts, resizeBreakpoint)
             IN  [entered EXCEPT !.cur = resizeBreakpoint]

\* mutant: every handler compares with the breakpoint that was active when
\* the event arrived
RECURSIVE RunResizeHandlers_StaleCurrent(_, _, _, _)
RunResizeHandlers_StaleCurrent(m, opts, width, n) ==
    IF n = 0 THEN m
    ELSE LET rest == RunResizeHandlers_StaleCurrent(m, opts, width, n - 1)
             mine == _resize([m EXCEPT !.out = << >>], opts, width)
         IN  [mine EXCEPT !.out = rest.out \o @,
                          !.body = IF n = 1 THEN @ ELSE rest.body]

\* every handler registered on 'resize.breakpoint' runs in turn; each stores
\* e.width and calls _resize
RECURSIVE RunResizeHandlers(_, _, _, _)
RunResizeHandlers(m, opts, width, n) ==
    IF n = 0 THEN m
    ELSE RunResizeHandlers(_resize(m, opts, width), opts, width, n - 1)

Machine == [cur |-> _currentBreakpoint, body |-> bodyClasses, out |-> << >>]

\* --------------------------------------------------------- getConfig

\* A JSON text is a sequence of tokens [k, s, v]: k the kind of token, s its
\* text (punctuation, key, true/false), v its number.
Tok(k, s, v) == [k |-> k, s |-> s, v |-> v]

\* JSON.stringify(_options): {} before the first configure, afterwards
\* {"classBody":<bool>,"breakpoints":[<n>,...]}
Stringify(opts) ==
    IF ~opts.has THEN << Tok("punct", "{", 0), Tok("punct", "}", 0) >>
    ELSE << Tok("punct", "{", 0),
            Tok("key", "classBody", 0),
            Tok("bool", IF opts.classBody THEN "true" ELSE "false", 0),
            Tok("key", "breakpoints", 0),
            Tok("punct", "[", 0) >>
         \o [ i \in 1..Len(opts.breakpoints) |-> Tok("num", "", opts.breakpoints[i]) ]
         \o << Tok("punct", "]", 0), Tok("punct", "}", 0) >>

\* JSON.parse of such a text: a fresh object
Parse(text) ==
    IF Len(text) = 2
    THEN [has |-> FALSE, classBody |-> FALSE, breakpoints |-> << >>]
    ELSE [has |-> TRUE,
          classBody |-> text[3].s = "true",
          breakpoints |-> [ i \in 1..(Len(text) - 7) |-> text[i + 5].v ]]

\* mutant: _options itself handed out
CopyOptions_SameObject(opts) == [alias |-> TRUE, value |-> opts]

\* JSON.parse(JSON.stringify(_options)): a copy that shares nothing with
\* _options (alias: whether the value handed out is _options itself)
CopyOptions(opts) == [alias |-> FALSE, value |-> Parse(Stringify(opts))]

\* no object handed out by the last operation
NoReturn == [alias |-> FALSE,
             value |-> [has |-> FALSE, classBody |-> FALSE, breakpoints |-> << >>]]

\* ------------------------------------------------- enter/exit history

\* every breakpoint value the tracker can be configured with
PairKeys == BPValues \cup { _defaults.breakpoints[i] : i \in DOMAIN _defaults.breakpoints }

\* one triggered signal recorded: open[b] counts the enters of b not yet
\* matched by an exit (MaxOpen stands for "MaxOpen or more" and is never
\* counted down); bad is set by an exit of b that finds no open enter, and
\* nothing is counted after that.  Only the generic signal of each pair is
\* counted.
TrackSignal(p, sig) ==
    IF ~p.track \/ p.bad \/ sig.suffix # << >> THEN p
    ELSE LET b == sig.payload
         IN  IF sig.prefix = "enter"
             THEN [p EXCEPT !.open[b] = IF @ < MaxOpen THEN @ + 1 ELSE @]
             ELSE IF p.open[b] = 0
                  THEN [p EXCEPT !.bad = TRUE, !.open = [k \in PairKeys |-> 0]]
             ELSE [p EXCEPT !.open[b] = IF @ < MaxOpen THEN @ - 1 ELSE @]

RECURSIVE TrackSignals(_, _)
TrackSignals(p, out) ==
    IF out = << >> THEN p ELSE TrackSignals(TrackSignal(p, Head(out)), Tail(out))

\* ------------------------------------------------------------ actions

\* track: whether the enter/exit history is recorded
InitWith(track) ==
    /\ _width \in Widths
    /\ viewport = _width
    /\ _currentBreakpoint = UNDEFINED
    /\ _options = [has |-> FALSE, classBody |-> FALSE, breakpoints |-> << >>]
    /\ defaultsObj = _defaults
    /\ caller = [alias |-> "none", array |-> << >>, passed |-> << >>]
    /\ resizeHandlers = 0
    /\ focusListener = FALSE
    /\ bodyClasses = {}
    /\ emitted = << >>
    /\ returned = NoReturn
    /\ pairing = [track |-> track, open |-> [b \in PairKeys |-> 0], bad |-> FALSE]
    /\ lastOp = [op |-> "load", ret |-> UNDEFINED, threw |-> FALSE]

Init == InitWith(FALSE)

\* the caller's array once another operation ran: its order as supplied is
\* no longer remembered
Forget(c) == [c EXCEPT !.passed = << >>]

\* _options after the two for-in copies and the sort
Merged(settings) ==
    [has |-> TRUE,
     classBody |-> IF settings.hasClassBody THEN settings.classBody
                   ELSE defaultsObj.classBody,
     breakpoints |-> _numericSort(IF settings.hasBreakpoints THEN settings.breakpoints
                                  ELSE defaultsObj.breakpoints)]

\* mutant: the settings copied into _defaults as well
DefaultsAfter_Polluted(settings, sorted) ==
    [classBody |-> IF settings.hasClassBody THEN settings.classBody
                   ELSE defaultsObj.classBody,
     breakpoints |-> sorted]

\* _defaults after configure: only read by the first for-in; the sort works in
\* place on the array _options.breakpoints refers to, which is the array of
\* _defaults when the settings carry none
DefaultsAfter(settings, sorted) ==
    IF settings.hasBreakpoints THEN defaultsObj
    ELSE [defaultsObj EXCEPT !.breakpoints = sorted]

\* mutant: the active breakpoint computed only when none is stored
ConfigureCurrent_Stale(opts) ==
    IF _currentBreakpoint.t = "num" THEN _currentBreakpoint
    ELSE _determineCurrentBreakpoint(_width, opts.breakpoints)

\* _currentBreakpoint = _determineCurrentBreakpoint() under the new options
ConfigureCurrent(opts) ==
    _determineCurrentBreakpoint(_width, opts.breakpoints)

\* the array _options.breakpoints refers to after configure: the caller's own
\* array, sorted in place, or the array of _defaults
CallerAfter(settings, sorted) ==
    IF settings.hasBreakpoints
    THEN [alias |-> "caller", array |-> sorted, passed |-> settings.breakpoints]
    ELSE [alias |-> "defaults", array |-> << >>, passed |-> << >>]

_configure(settings) ==
    /\ resizeHandlers < MaxHandlers
    /\ LET opts    == Merged(settings)
           current == ConfigureCurrent(opts)
           m       == _enterBreakpoint([Machine EXCEPT !.cur = current], opts, current)
       IN  /\ _options' = opts
           /\ defaultsObj' = DefaultsAfter(settings, opts.breakpoints)
           /\ caller' = CallerAfter(settings, opts.breakpoints)
           /\ _currentBreakpoint' = m.cur
           /\ bodyClasses' = m.body
           /\ emitted' = m.out
           /\ pairing' = TrackSignals(pairing, m.out)
    /\ resizeHandlers' = resizeHandlers + 1
    /\ focusListener' = TRUE
    /\ returned' = NoReturn
    /\ lastOp' = [op |-> "configure", ret |-> UNDEFINED, threw |-> FALSE]
    /\ UNCHANGED << _width, viewport >>

Configure == \E settings \in SettingsInputs : _configure(settings)

_getConfig ==
    /\ returned' = CopyOptions(_options)
    /\ lastOp' = [op |-> "getConfig", ret |-> UNDEFINED, threw |-> FALSE]
    /\ emitted' = << >>
    /\ caller' = Forget(caller)
    /\ UNCHANGED << _width, viewport, _currentBreakpoint, _options, defaultsObj,
                    resizeHandlers, focusListener, bodyClasses, pairing >>

\* mutant: the stored breakpoint returned without recomputing it
_getCurrent_Cached ==
    /\ lastOp' = [op |-> "getCurrent", ret |-> _currentBreakpoint, threw |-> FALSE]
    /\ emitted' = << >>
    /\ returned' = NoReturn
    /\ caller' = Forget(caller)
    /\ UNCHANGED << _width, viewport, _currentBreakpoint, _options, defaultsObj,
                    resizeHandlers, focusListener, bodyClasses, pairing >>

\* _options.breakpoints is undefined before the first configure: reading its
\* length throws a TypeError before anything is assigned
_getCurrent ==
    /\ IF ~_options.has
       THEN /\ lastOp' = [op |-> "getCurrent", ret |-> UNDEFINED, threw |-> TRUE]
            /\ UNCHANGED _currentBreakpoint
       ELSE LET current == _determineCurrentBreakpoint(_width, _options.breakpoints)
            IN  /\ _currentBreakpoint' = current
                /\ lastOp' = [op |-> "getCurrent", ret |-> current, threw |-> FALSE]
    /\ emitted' = << >>
    /\ returned' = NoReturn
    /\ caller' = Forget(caller)
    /\ UNCHANGED << _width, viewport, _options, defaultsObj, resizeHandlers,
                    focusListener, bodyClasses, pairing >>

\* Dom.prototype.off calls addEventListener: the focus listener is (re-)added,
\* never removed; adding the same function twice is a no-op in the DOM
DomOff(listening) == TRUE

\* signalWindow.off('resize.breakpoint') drops every handler of the name
_unbind ==
    /\ resizeHandlers' = 0
    /\ focusListener' = DomOff(focusListener)

_reset ==
    /\ _unbind
    /\ LET m == _exitBreakpoint(Machine, _options, _currentBreakpoint)
       IN  /\ bodyClasses' = m.body
           /\ emitted' = m.out
           /\ pairing' = TrackSignals(pairing, m.out)
    /\ _currentBreakpoint' = NULL
    /\ returned' = NoReturn
    /\ caller' = Forget(caller)
    /\ lastOp' = [op |-> "reset", ret |-> UNDEFINED, threw |-> FALSE]
    /\ UNCHANGED << _width, viewport, _options, defaultsObj >>

\* the handlers of 'resize.breakpoint' run on the event: Machine after them
HandleResize(width) ==
    RunResizeHandlers(Machine, _options, width, resizeHandlers)

\* mutant: _resize called before e.width is stored
ResizeEvent_ResizeFirst(width) ==
    /\ resizeHandlers > 0
    /\ LET m == RunResizeHandlers(Machine, _options, _width, resizeHandlers)
       IN  /\ _currentBreakpoint' = m.cur
           /\ bodyClasses' = m.body
           /\ emitted' = m.out
           /\ pairing' = TrackSignals(pairing, m.out)
    /\ _width' = width
    /\ viewport' = width
    /\ returned' = NoReturn
    /\ caller' = Forget(caller)
    /\ lastOp' = [op |-> "resize", ret |-> UNDEFINED, threw |-> FALSE]
    /\ UNCHANGED << _options, defaultsObj, resizeHandlers, focusListener >>

\* signal-window delivers a resize carrying the new width to every handler
ResizeEvent(width) ==
    /\ resizeHandlers > 0
    /\ LET m == HandleResize(width)
       IN  /\ _currentBreakpoint' = m.cur
           /\ bodyClasses' = m.body
           /\ emitted' = m.out
           /\ pairing' = TrackSignals(pairing, m.out)
    /\ _width' = width
    /\ viewport' = width
    /\ returned' = NoReturn
    /\ caller' = Forget(caller)
    /\ lastOp' = [op |-> "resize", ret |-> UNDEFINED, threw |-> FALSE]
    /\ UNCHANGED << _options, defaultsObj, resizeHandlers, focusListener >>

Resize == \E width \in Widths : ResizeEvent(width)

\* the window's focus event calls _resize with the stored width
FocusEvent ==
    /\ focusListener
    /\ IF ~_options.has
       THEN /\ lastOp' = [op |-> "focus", ret |-> UNDEFINED, threw |-> TRUE]
            /\ emitted' = << >>
            /\ UNCHANGED << _currentBreakpoint, bodyClasses, pairing >>
       ELSE LET m == _resize(Machine, _options, _width)
            IN  /\ _currentBreakpoint' = m.cur
                /\ bodyClasses' = m.body
                /\ emitted' = m.out
                /\ pairing' = TrackSignals(pairing, m.out)
                /\ lastOp' = [op |-> "focus", ret |-> UNDEFINED, threw |-> FALSE]
    /\ returned' = NoReturn
    /\ caller' = Forget(caller)
    /\ UNCHANGED << _width, viewport, _options, defaultsObj, resizeHandlers,
                    focusListener >>

Next ==
    \/ Configure
    \/ _getConfig
    \/ _getCurrent
    \/ _reset
    \/ Resize
    \/ FocusEvent

Spec == Init /\ [][Next]_vars

\* ------------------------------------------------------ the environment

\* the window is resized while no resize event reaches the tracker (the
\* window is not focused)
ViewportChange ==
    /\ \E width \in Widths \ { viewport } : viewport' = width
    /\ emitted' = << >>
    /\ returned' = NoReturn
    /\ caller' = Forget(caller)
    /\ lastOp' = [op |-> "viewportChange", ret |-> UNDEFINED, threw |-> FALSE]
    /\ UNCHANGED << _width, _currentBreakpoint, _options, defaultsObj,
                    resizeHandlers, focusListener, bodyClasses, pairing >>

NextViewport == Next \/ ViewportChange

SpecViewport == Init /\ [][NextViewport]_vars

\* the caller changes the array it passed to configure; _options.breakpoints
\* is that very array
CallerMutates ==
    /\ caller.alias = "caller"
    /\ \E arr \in BreakpointInputs \ { caller.array } :
          /\ caller' = [caller EXCEPT !.array = arr, !.passed = << >>]
          /\ _options' = [_options EXCEPT !.breakpoints = arr]
    /\ emitted' = << >>
    /\ returned' = NoReturn
    /\ lastOp' = [op |-> "callerMutates", ret |-> UNDEFINED, threw |-> FALSE]
    /\ UNCHANGED << _width, viewport, _currentBreakpoint, defaultsObj,
                    resizeHandlers, focusListener, bodyClasses, pairing >>

NextAlias == Next \/ CallerMutates

SpecAlias == Init /\ [][NextAlias]_vars

\* what a caller may turn the object getConfig() gave it into
MutatedConfigs(cfg) ==
    { [cfg EXCEPT !.classBody = ~@],
      [cfg EXCEPT !.breakpoints = << >>],
      [cfg EXCEPT !.breakpoints = @ \o << 1 >>] } \ { cfg }

\* the caller changes the object the last getConfig() returned (once)
MutateReturned ==
    /\ lastOp.op = "getConfig"
    /\ \E cfg \in MutatedConfigs(returned.value) :
          /\ returned' = [returned EXCEPT !.value = cfg]
          /\ _options' = IF returned.alias THEN cfg ELSE _options
    /\ emitted' = << >>
    /\ caller' = Forget(caller)
    /\ lastOp' = [op |-> "mutateReturned", ret |-> UNDEFINED, threw |-> FALSE]
    /\ UNCHANGED << _width, viewport, _currentBreakpoint, defaultsObj,
                    resizeHandlers, focusListener, bodyClasses, pairing >>

NextReturned == Next \/ MutateReturned

SpecReturned == Init /\ [][NextReturned]_vars

\* the tracker's operations with the enter/exit history recorded
SpecPairing == InitWith(TRUE) /\ [][Next]_vars

\* ------------------------------------------------------------- claims

Range(s) == { s[i] : i \in DOMAIN s }

Positive(v) == v.t = "num" /\ v.n > 0

\* the tracker's own state, without the record of the last operation
tracker == << _width, _currentBreakpoint, _options, resizeHandlers,
              focusListener, bodyClasses >>

\* the two signals of entering / exiting b, the breakpoint's own first
EnterSignals(b) == << Signal("enter", << b >>, b), Signal("enter", << >>, b) >>
ExitSignals(b) == << Signal("exit", << b >>, b), Signal("exit", << >>, b) >>

\* v is the bucket of width w under the ascending sequence B
IsBucket(v, w, B) ==
    IF B = << >> THEN v = Num(-1)
    ELSE /\ v.t = "num"
         /\ v.n \in Range(B)
         /\ IF \E b \in Range(B) : b <= w
            THEN v.n <= w /\ \A b \in Range(B) : b <= w => b <= v.n
            ELSE \A b \in Range(B) : v.n <= b

\* C1: for the configured ascending breakpoints B and the stored width w,
\* _determineCurrentBreakpoint returns -1 when B is empty and otherwise the
\* largest element of B that is <= w, or the smallest element of B when w is
\* below all of them.
C1_DetermineReturnsBucket ==
    _options.has =>
        IsBucket(_determineCurrentBreakpoint(_width, _options.breakpoints),
                 _width, _options.breakpoints)

\* C1 witness: getCurrent returned the lower of two breakpoints for a width
\* strictly between them (the loop's third rule decided).
C1_Witness ==
    /\ lastOp.op = "getCurrent"
    /\ Len(_options.breakpoints) >= 2
    /\ _options.breakpoints[1] < _width
    /\ _width < _options.breakpoints[2]
    /\ lastOp.ret = Num(_options.breakpoints[1])

\* C2: while configured and subscribed, a resize event whose width maps to
\* the bucket that is already active triggers no signal, changes no body
\* class and leaves the active breakpoint (and everything but the stored
\* width) unchanged.
C2_SameBucketResizeIsNoOp ==
    [][ \A w \in Widths :
          ( /\ ResizeEvent(w)
            /\ _options.has
            /\ _determineCurrentBreakpoint(w, _options.breakpoints) = _currentBreakpoint )
          => ( /\ emitted' = << >>
               /\ bodyClasses' = bodyClasses
               /\ _currentBreakpoint' = _currentBreakpoint
               /\ _width' = w
               /\ UNCHANGED << _options, resizeHandlers, focusListener >> ) ]_vars

\* C2 witness: a resize event was delivered to a tracker with a positive
\* active breakpoint and triggered nothing.
C2_Witness ==
    /\ lastOp.op = "resize"
    /\ emitted = << >>
    /\ Positive(_currentBreakpoint)
    /\ _currentBreakpoint = _determineCurrentBreakpoint(_width, _options.breakpoints)

\* C3: a resize event that moves the width from the positive bucket old to a
\* different positive bucket new triggers exactly 'exit'+old, 'exit',
\* 'enter'+new, 'enter', in this order, each carrying its breakpoint, and
\* leaves the active breakpoint equal to new.
C3_BucketChangeSignals ==
    [][ \A w \in Widths :
          LET old == _currentBreakpoint
              new == _determineCurrentBreakpoint(w, _options.breakpoints)
          IN  ( /\ ResizeEvent(w)
                /\ Positive(old)
                /\ old = _determineCurrentBreakpoint(_width, _options.breakpoints)
                /\ Positive(new)
                /\ new # old )
              => ( /\ emitted' = ExitSignals(old.n) \o EnterSignals(new.n)
                   /\ _currentBreakpoint' = new ) ]_vars

\* C3 witness: a resize event exited one breakpoint and entered another.
C3_Witness ==
    /\ lastOp.op = "resize"
    /\ Len(emitted) = 4
    /\ emitted[1].prefix = "exit"
    /\ emitted[3].prefix = "enter"
    /\ emitted[1].payload # emitted[3].payload
    /\ _currentBreakpoint = Num(emitted[3].payload)

\* C4 (as claimed): between a reset() and the next configure() the tracker
\* listens to nothing, so no resize or focus event triggers a signal, changes
\* the body's classes or changes the active breakpoint.
C4_NoEventAfterReset ==
    [][ ( /\ resizeHandlers = 0
          /\ (FocusEvent \/ Resize) )
        => ( /\ emitted' = << >>
             /\ bodyClasses' = bodyClasses
             /\ _currentBreakpoint' = _currentBreakpoint ) ]_vars

\* C5 (as claimed): the stored active breakpoint is a member of the
\* configured sequence or the sentinel -1, in every state.
C5_ActiveIsMemberOrMinusOne ==
    _currentBreakpoint \in
        { Num(-1) } \cup { Num(b) : b \in Range(_options.breakpoints) }

\* C5 (amended): the stored active breakpoint is a member of the configured
\* sequence, or -1, or the cleared value: undefined until the first
\* configure() or reset(), null after a reset(); reset() leaves it null,
\* and once configure() has run it is never undefined.
C5_ActiveIsMemberOrCleared ==
    /\ _currentBreakpoint \in
         { UNDEFINED, NULL, Num(-1) } \cup { Num(b) : b \in Range(_options.breakpoints) }
    /\ (lastOp.op = "reset" => _currentBreakpoint = NULL)
    /\ (_options.has => _currentBreakpoint # UNDEFINED)
    /\ (resizeHandlers > 0 => _currentBreakpoint.t = "num")

\* C5 witness: reset() exited a positive breakpoint and left the cleared
\* value behind.
C5_Witness ==
    /\ lastOp.op = "reset"
    /\ emitted # << >>
    /\ _currentBreakpoint = NULL
    /\ _options.breakpoints # << >>

\* C6: reset() called while the active breakpoint is a positive b triggers
\* 'exit'+b and then 'exit', both carrying b, once each, triggers no enter
\* signal and, when classBody is on, takes 'breakpoint-'+b off the body.
C6_ResetExitsOnce ==
    [][ ( _reset /\ Positive(_currentBreakpoint) )
        => ( /\ emitted' = ExitSignals(_currentBreakpoint.n)
             /\ ( _options.classBody =>
                    bodyClasses' = bodyClasses \ { ClassName(_currentBreakpoint.n) } )
             /\ ( ~_options.classBody => bodyClasses' = bodyClasses ) ) ]_vars

\* C6 witness: reset() triggered the two exit signals of a breakpoint whose
\* class is no longer on the body.
C6_Witness ==
    /\ lastOp.op = "reset"
    /\ Len(emitted) = 2
    /\ _options.classBody
    /\ ClassName(emitted[1].payload) \notin bodyClasses

\* C7: reset() on a tracker that is already reset (the last call was
\* reset(), or the active breakpoint is cleared, or nothing was configured
\* yet) triggers no signal and changes no body class; after a reset() it
\* leaves the whole tracker state as that reset() left it.
C7_ResetIdempotent ==
    [][ ( /\ _reset
          /\ ( lastOp.op = "reset" \/ _currentBreakpoint \in { NULL, UNDEFINED } ) )
        => ( /\ emitted' = << >>
             /\ bodyClasses' = bodyClasses
             /\ ( (lastOp.op = "reset" \/ _currentBreakpoint = NULL)
                    => UNCHANGED tracker ) ) ]_vars

\* C7 witness: reset() ran on a configured tracker with breakpoints and found
\* nothing to exit (the active breakpoint was already cleared).
C7_Witness ==
    /\ lastOp.op = "reset"
    /\ emitted = << >>
    /\ _options.has
    /\ _options.breakpoints # << >>

\* C8: once configure() has run, getCurrent() returns the bucket of the last
\* stored width under the configured breakpoints, also after reset() cleared
\* the stored state; it never returns the cleared value.
C8_GetCurrentRecomputes ==
    ( lastOp.op = "getCurrent" /\ _options.has )
    => ( /\ ~lastOp.threw
         /\ lastOp.ret = _determineCurrentBreakpoint(_width, _options.breakpoints)
         /\ lastOp.ret.t = "num"
         /\ _currentBreakpoint = lastOp.ret )

\* C8 witness: getCurrent() was called after reset() (nothing is subscribed)
\* and returned a positive breakpoint.
C8_Witness ==
    /\ lastOp.op = "getCurrent"
    /\ _options.has
    /\ resizeHandlers = 0
    /\ Positive(lastOp.ret)

\* C9 (as claimed): when classBody is enabled the body carries at most one
\* 'breakpoint-'+value class, whatever operations ran.
C9_AtMostOneClass ==
    _options.classBody => Cardinality(bodyClasses) <= 1

\* C10: configure(settings), in whatever state, sets the active breakpoint to
\* b = the bucket of the stored width under the sorted breakpoints and
\* triggers exactly 'enter'+b then 'enter' when b is positive, nothing
\* otherwise; it never triggers an exit signal.  (configure() leaves the
\* stored width alone, so the state it produces shows all of this.)
C10_ConfigureEntersOnly ==
    lastOp.op = "configure" =>
        LET b == _determineCurrentBreakpoint(_width, _options.breakpoints)
        IN  /\ _currentBreakpoint = b
            /\ emitted = IF Positive(b) THEN EnterSignals(b.n) ELSE << >>
            /\ \A i \in DOMAIN emitted : emitted[i].prefix # "exit"

\* C10 witness: configure() ran on a tracker that was already configured and
\* active, and triggered the two enter signals.
C10_Witness ==
    /\ lastOp.op = "configure"
    /\ resizeHandlers = 2
    /\ emitted = EnterSignals(_currentBreakpoint.n)
    /\ Cardinality(bodyClasses) = 2

\* C11: a focus event re-evaluates the bucket against the window's actual
\* width: after a focus event that completed, the active breakpoint is the
\* bucket of the viewport width, also when the viewport changed while no
\* resize event was delivered.
C11_FocusReevaluatesViewport ==
    (lastOp.op = "focus" /\ ~lastOp.threw) =>
        _currentBreakpoint = _determineCurrentBreakpoint(viewport, _options.breakpoints)

\* C12: no signal, enter or exit, specific or generic, ever carries a
\* breakpoint that is 0, negative (the sentinel -1 included), null or
\* undefined: every triggered signal's payload, and the number in a specific
\* signal's name, is a positive integer.
C12_OnlyPositivePayloads ==
    \A i \in DOMAIN emitted :
        /\ emitted[i].payload \in Nat \ {0}
        /\ \A k \in DOMAIN emitted[i].suffix : emitted[i].suffix[k] \in Nat \ {0}

\* C12 witness: a focus event took the tracker out of the cleared state
\* (reset left null) and only the enter pair of the new breakpoint was
\* triggered, nothing for the cleared value.
C12_Witness ==
    /\ lastOp.op = "focus"
    /\ resizeHandlers = 0
    /\ _currentBreakpoint.t = "num"
    /\ _currentBreakpoint.n > 0
    /\ emitted = EnterSignals(_currentBreakpoint.n)

\* C13: no public operation throws: configure, getConfig, getCurrent and
\* reset complete normally in whatever order and however often they are
\* called, before the first configure included.
C13_NoOperationThrows ==
    lastOp.op \in {"configure", "getConfig", "getCurrent", "reset"} => ~lastOp.threw

\* s is numerically ascending
Ascending(s) == \A i \in DOMAIN s : \A j \in DOMAIN s : i < j => s[i] <= s[j]

\* s and t hold the same elements, each as often
IsPermutation(s, t) ==
    /\ Len(s) = Len(t)
    /\ \A x \in Range(s) \cup Range(t) :
          Cardinality({ i \in DOMAIN s : s[i] = x }) =
          Cardinality({ i \in DOMAIN t : t[i] = x })

\* C14: getConfig() round-trips the configuration and hands out an
\* independent copy: what getConfig() gives right after configure(settings)
\* has the merged classBody and the supplied (or default) breakpoints in
\* ascending order, what getConfig() returned equals the stored configuration,
\* and once the caller has changed the returned object (its breakpoints array
\* included) the stored configuration, hence a later getConfig() and every
\* bucket computed, is what it was and differs from the changed object.
C14_GetConfigIndependentCopy ==
    /\ lastOp.op = "configure" =>
          LET cfg == CopyOptions(_options).value
          IN  /\ cfg.has
              /\ cfg.classBody = _options.classBody
              /\ Ascending(cfg.breakpoints)
              /\ IsPermutation(cfg.breakpoints,
                               IF caller.alias = "caller" THEN caller.passed
                               ELSE _defaults.breakpoints)
    /\ lastOp.op = "getConfig" => returned.value = _options
    /\ lastOp.op = "mutateReturned" =>
          /\ returned.value # _options
          /\ CopyOptions(_options).value = _options
          /\ _options.has => Ascending(_options.breakpoints)

\* C14 witness: the caller emptied the breakpoints array of the object that
\* getConfig() returned for a configuration with two breakpoints.
C14_Witness ==
    /\ lastOp.op = "mutateReturned"
    /\ returned.value.breakpoints = << >>
    /\ Len(_options.breakpoints) = 2
    /\ caller.alias = "caller"

\* configure() called without settings
NoSettings == [hasClassBody |-> FALSE, classBody |-> FALSE,
               hasBreakpoints |-> FALSE, breakpoints |-> << >>]

\* C15: configure never changes the defaults: whatever settings earlier
\* configure calls carried, a configure() without settings leaves exactly
\* classBody = true and breakpoints = [320, 480, 768, 992, 1200] stored, and
\* the defaults object as it was written.
C15_DefaultsNeverMutated ==
    [][ _configure(NoSettings) =>
          /\ _options' = [has |-> TRUE, classBody |-> TRUE,
                          breakpoints |-> << 320, 480, 768, 992, 1200 >>]
          /\ defaultsObj' = _defaults ]_vars

\* C15 witness: configure() without settings restored the defaults while the
\* body still carries the class of a breakpoint that an earlier configure
\* with its own breakpoints entered.
C15_Witness ==
    /\ lastOp.op = "configure"
    /\ _options = [has |-> TRUE, classBody |-> TRUE,
                   breakpoints |-> << 320, 480, 768, 992, 1200 >>]
    /\ \E b \in BPValues : ClassName(b) \in bodyClasses
    /\ ClassName(320) \in bodyClasses

\* C16: once configure has run, the stored breakpoint sequence is numerically
\* ascending in every later state, in whatever order the breakpoints were
\* supplied, and right after configure it is a permutation of the supplied
\* breakpoints.
C16_StoredAscendingPermutation ==
    /\ _options.has => Ascending(_options.breakpoints)
    /\ (lastOp.op = "configure" /\ caller.alias = "caller") =>
          IsPermutation(_options.breakpoints, caller.passed)

\* C17: enter and exit signals are paired over every sequence of configure,
\* resize, focus, getCurrent and reset: each exit of a breakpoint is preceded
\* by an enter of that breakpoint which no earlier exit has matched.
C17_ExitsMatchEnters == ~pairing.bad

\* C18: with the resize handler registered several times (configure called
\* repeatedly without reset), one resize event triggers at most one exit pair
\* and one enter pair, never a pair per handler: nothing, the enter pair of
\* the new active breakpoint, or the exit pair of another breakpoint followed
\* by that enter pair.
C18_OnePairPerResize ==
    (lastOp.op = "resize" /\ resizeHandlers >= 2) =>
        \/ emitted = << >>
        \/ /\ Positive(_currentBreakpoint)
           /\ \/ emitted = EnterSignals(_currentBreakpoint.n)
              \/ \E b \in PairKeys \ { _currentBreakpoint.n } :
                    emitted = ExitSignals(b) \o EnterSignals(_currentBreakpoint.n)

\* C18 witness: a resize event delivered to two registered handlers changed
\* the bucket and triggered the four signals of one exit and one enter.
C18_Witness ==
    /\ lastOp.op = "resize"
    /\ resizeHandlers = 2
    /\ Len(emitted) = 4
    /\ emitted[1].prefix = "exit"
    /\ emitted[4] = Signal("enter", << >>, _currentBreakpoint.n)

\* C19: while configured and not reset, after every completed operation the
\* cached active breakpoint is _determineCurrentBreakpoint of the stored
\* width and the stored breakpoints.
C19_CacheNeverStale ==
    resizeHandlers > 0 =>
        _currentBreakpoint = _determineCurrentBreakpoint(_width, _options.breakpoints)

\* C19 witness: a resize event moved the tracker to the upper of two
\* breakpoints, and the cache holds it.
C19_Witness ==
    /\ lastOp.op = "resize"
    /\ resizeHandlers > 0
    /\ Len(_options.breakpoints) = 2
    /\ _width >= _options.breakpoints[2]
    /\ _currentBreakpoint = Num(_options.breakpoints[2])
    /\ emitted # << >>

\* C20: configure neither modifies nor keeps its argument: after the call
\* the caller's breakpoints array holds the same elements in the same order,
\* and when the caller changes that array later the stored sequence is not
\* the changed array.
C20_ArgumentNotModifiedNorAliased ==
    /\ (lastOp.op = "configure" /\ caller.alias = "caller") =>
          caller.array = caller.passed
    /\ lastOp.op = "callerMutates" => _options.breakpoints # caller.array
====
